---------------------------- MODULE Spec2Model ----------------------------
(***************************************************************************)
(* readme-refresh (script.ts): the command-line pipeline that regenerates  *)
(* a README from gitingest snapshots and a sequence of OpenAI exchanges.   *)
(*                                                                         *)
(* One run of the process is modelled: main's mode dispatch, the           *)
(* dependency check, snapshot generation, the step loop                    *)
(* (processPromptStep -> updateReadme -> question), formatReadme, the      *)
(* cleanup of the snapshot files and the exit status.                      *)
(*                                                                         *)
(* Text is a sequence of one-character strings.  The outcome of every      *)
(* external call (subprocess, file operation, completion request,          *)
(* operator answer) is an input chosen with \E.  A file operation that     *)
(* fails leaves the file system as it was.  Response identifiers are the   *)
(* provider's unique ids: the n-th request of the run is answered with     *)
(* id n; 0 stands for the empty string ''.                                 *)
(*                                                                         *)
(* Spec is one run of the process.  DependencyTrialSpec applies            *)
(* checkDependencies to every combination of probe outcomes, and           *)
(* ReplaySpec runs the step loop twice from the same files against a       *)
(* completion stub that answers equal requests equally; Spec leaves the    *)
(* request's user field (SESSION_ID, the same in every request of a run)   *)
(* out, ReplaySpec has it.  FormatSpec is Spec with markdownlint's exit    *)
(* code kept in the state, and FairSpec is Spec with every enabled step    *)
(* eventually taken: every external call returns.  GitingestTrialSpec      *)
(* applies runGitingest to every exit of the subprocess and state of its   *)
(* output file, and WrapperSpec applies the handlers of bin/rereadme.js    *)
(* to every way its child process may end.                                 *)
(***************************************************************************)
EXTENDS Naturals, Sequences, FiniteSets

\* ------------------------------------------------------------------ bounds
\* Longest completion text the stub completion service returns.
MaxLen == 1

\* Most fs.remove calls that fail in one cleanup.
MaxRemoveFailures == 1

\* ------------------------------------------------------------------- text
Chars == {"a", "\n"}

\* Every text of at most n characters.
Texts(n) == UNION {[1..k -> Chars] : k \in 0..n}

\* A completion as the service usually returns it: text ending in a newline.
TerminatedLine == <<"a", "\n">>

\* What the completion service may return as output_text.
Completions == Texts(MaxLen) \cup {TerminatedLine}

\* String.prototype.trim's notion of white space (the part that occurs here).
IsSpace(ch) == ch \in {" ", "\n", "\t", "\r"}

RECURSIVE TrimStart(_)
TrimStart(s) ==
    IF s = <<>> THEN <<>>
    ELSE IF IsSpace(Head(s)) THEN TrimStart(Tail(s)) ELSE s

RECURSIVE TrimEnd(_)
TrimEnd(s) ==
    IF s = <<>> THEN <<>>
    ELSE IF IsSpace(s[Len(s)]) THEN TrimEnd(SubSeq(s, 1, Len(s) - 1)) ELSE s

\* content.trim()
Trim(s) == TrimEnd(TrimStart(s))

\* Faulty variant of Normalize: the content is written without trim().
NormalizeUntrimmed(content) == content \o <<"\n">>

\* Faulty variant of Normalize: the trailing newline is not added.
NormalizeWithoutNewline(content) == Trim(content)

\* content.trim() + '\n': what updateReadme hands to fs.writeFile.
Normalize(content) == Trim(content) \o <<"\n">>

\* ------------------------------------------------------------ file system
\* The content of a path that does not exist.
NoFile == <<"ENOENT">>

\* The value of the --output option when it is given.
CustomOutput == "OUT.md"

DocPaths == {"README.md", CustomOutput}

\* The document a path holds before the run, when it exists.
Original(p) == IF p = "README.md" THEN <<"r", "\n">> ELSE <<"o", "\n">>

\* DEFAULT_GITINGEST_CONFIGS, by output file.
DEFAULT_GITINGEST_CONFIGS ==
    <<"gitingest-code.txt", "gitingest-llm.txt", "gitingest-tf.txt">>

SnapshotFiles == {DEFAULT_GITINGEST_CONFIGS[k] : k \in DOMAIN DEFAULT_GITINGEST_CONFIGS}

\* What gitingest writes on success, and what an earlier run left behind.
FreshSnapshot == <<"s">>
StaleSnapshot == <<"x">>

\* --------------------------------------------------------------- variables
VARIABLES
    argv,                \* the command-line flags
    apiKey,              \* process.env.OPENAI_API_KEY is set
    docs,                \* document files: path -> content or NoFile
    snapshots,           \* snapshot files: path -> content or NoFile
    backupCount,         \* number of <output>.backup-<timestamp> files
    lastBackup,          \* content of the newest backup file, or NoFile
    pc,                  \* position of the process
    exitCode,            \* the status the process exits with (node: 0 until process.exit(1))
    i,                   \* index of the running for-loop
    prompts,             \* runWorkflow's prompts array
    previousResponseId,  \* runWorkflow's previousResponseId
    result,              \* what callOpenAI returned to the running step
    apiCalls,            \* requests sent to responses.create
    lastRequest,         \* the newest request sent to responses.create
    stepLog,             \* one record per loop iteration started
    writes,              \* successful fs.writeFile calls on the output
    lastCopy,            \* how the newest updateReadme's backup went
    asked,               \* times the operator was asked to continue
    declined,            \* the operator answered something other than y
    probes,              \* what checkDependencies' tool probes reported
    gitingestRuns,       \* runGitingest's return values, in call order
    depsChecked,         \* checkDependencies calls
    formatRuns,          \* markdownlint --fix invocations
    removes,             \* fs.remove calls issued by the cleanup
    removeFailures,      \* fs.remove calls that were rejected
    trial                \* a function of the program applied to drawn inputs, with its results

vars == <<argv, apiKey, docs, snapshots, backupCount, lastBackup, pc, exitCode,
          i, prompts, previousResponseId, result, apiCalls, lastRequest, stepLog,
          writes, lastCopy, asked, declined, probes, gitingestRuns, depsChecked,
          formatRuns, removes, removeFailures, trial>>

\* What one phase leaves alone.
config == <<argv, apiKey>>
documentFiles == <<docs, backupCount, lastBackup, writes, lastCopy>>
dependencyState == <<probes, depsChecked>>
snapshotState == <<snapshots, gitingestRuns>>
exchangeState == <<previousResponseId, result, apiCalls, lastRequest>>
operatorState == <<asked, declined>>
endState == <<formatRuns, removes, removeFailures>>

\* const INPUT_FILE = argv.input || 'README.md'
INPUT_FILE == "README.md"

\* Faulty variant of OUTPUT_FILE: the --output option is not looked at.
OutputFileIgnored == "README.md"

\* const OUTPUT_FILE = argv.output || 'README.md'
OUTPUT_FILE == IF argv.output THEN CustomOutput ELSE "README.md"

NoResult == [content |-> <<>>, responseId |-> 0]

NoRequest == [instructions |-> "", input |-> <<>>, previous_response_id |-> 0]

Unprobed == [gitingest |-> "unprobed", markdownlint |-> "unprobed"]

NoTrial == [kind |-> "none"]

Flags ==
    [help : BOOLEAN, check : BOOLEAN, debugGitingest : BOOLEAN,
     interactive : BOOLEAN, continue : BOOLEAN, keepContext : BOOLEAN,
     confluence : BOOLEAN, output : BOOLEAN]

\* The document files a run may find: each path the run names is absent or
\* holds its original document.
InitialDocs ==
    {d \in [DocPaths -> {NoFile} \cup {Original(p) : p \in DocPaths}] :
        /\ \A p \in DocPaths : d[p] \in {NoFile, Original(p)}
        /\ \A p \in DocPaths \ {INPUT_FILE, OUTPUT_FILE} : d[p] = NoFile}

\* The snapshot files a run may find: an earlier run may have left the code
\* snapshot behind.
InitialSnapshots ==
    {s \in [SnapshotFiles -> {NoFile, StaleSnapshot}] :
        \A f \in SnapshotFiles \ {DEFAULT_GITINGEST_CONFIGS[1]} : s[f] = NoFile}

Init ==
    /\ argv \in Flags
    /\ apiKey \in BOOLEAN
    /\ docs \in InitialDocs
    /\ snapshots \in InitialSnapshots
    /\ backupCount = 0
    /\ lastBackup = NoFile
    /\ pc = "main"
    /\ exitCode = 0
    /\ i = 0
    /\ prompts = <<>>
    /\ previousResponseId = 0
    /\ result = NoResult
    /\ apiCalls = 0
    /\ lastRequest = NoRequest
    /\ stepLog = <<>>
    /\ writes = 0
    /\ lastCopy = "none"
    /\ asked = 0
    /\ declined = FALSE
    /\ probes = Unprobed
    /\ gitingestRuns = <<>>
    /\ depsChecked = 0
    /\ formatRuns = 0
    /\ removes = 0
    /\ removeFailures = 0
    /\ trial = NoTrial

\* ------------------------------------------------------------ main, modes
\* process.exit(code), or main returning (code 0).
Exit(code) ==
    /\ pc' = "exited"
    /\ exitCode' = code

\* Faulty variant of Main: runWorkflow starts with the snapshots, without
\* checking the dependencies.
MainSkipsDependencyCheck ==
    /\ pc = "main"
    /\ IF argv.help THEN Exit(0) /\ i' = i
       ELSE IF argv.check THEN pc' = "check" /\ exitCode' = exitCode /\ i' = i
       ELSE IF argv.debugGitingest THEN pc' = "debug" /\ exitCode' = exitCode /\ i' = 1
       ELSE pc' = "gitingest" /\ exitCode' = exitCode /\ i' = 1
    /\ UNCHANGED <<config, trial, documentFiles, dependencyState, snapshotState, exchangeState,
                   operatorState, endState, prompts, stepLog>>

\* Faulty variant of Main: --check is not tested, the workflow is run.
MainIgnoresCheck ==
    /\ pc = "main"
    /\ IF argv.help THEN Exit(0) /\ i' = i
       ELSE IF argv.debugGitingest /\ ~argv.check
       THEN pc' = "debug" /\ exitCode' = exitCode /\ i' = 1
       ELSE pc' = "deps" /\ exitCode' = exitCode /\ i' = i
    /\ UNCHANGED <<config, trial, documentFiles, dependencyState, snapshotState, exchangeState,
                   operatorState, endState, prompts, stepLog>>

\* Faulty variant of Main: --debug-gitingest is tested before --check.
MainDebugFirst ==
    /\ pc = "main"
    /\ IF argv.help THEN Exit(0) /\ i' = i
       ELSE IF argv.debugGitingest THEN pc' = "debug" /\ exitCode' = exitCode /\ i' = 1
       ELSE IF argv.check THEN pc' = "check" /\ exitCode' = exitCode /\ i' = i
       ELSE pc' = "deps" /\ exitCode' = exitCode /\ i' = i
    /\ UNCHANGED <<config, trial, documentFiles, dependencyState, snapshotState, exchangeState,
                   operatorState, endState, prompts, stepLog>>

\* main: --help, then --check, then --debug-gitingest, then runWorkflow.
Main ==
    /\ pc = "main"
    /\ IF argv.help THEN Exit(0) /\ i' = i
       ELSE IF argv.check THEN pc' = "check" /\ exitCode' = exitCode /\ i' = i
       ELSE IF argv.debugGitingest THEN pc' = "debug" /\ exitCode' = exitCode /\ i' = 1
       ELSE pc' = "deps" /\ exitCode' = exitCode /\ i' = i
    /\ UNCHANGED <<config, trial, documentFiles, dependencyState, snapshotState, exchangeState,
                   operatorState, endState, prompts, stepLog>>

\* What probing a tool may report; "throw" is the probe itself failing.
ProbeOutcomes == {"zero", "nonzero", "throw"}

\* What checkPythonEnvironment may find; it only logs.
PythonOutcomes == {"pyenv", "system", "throw"}

\* The line checkPythonEnvironment echoes; its catch block turns every
\* failure into the warning, and nothing is returned or thrown.
checkPythonEnvironment(python) ==
    CASE python = "pyenv"  -> "Detected pyenv environment"
      [] python = "system" -> "Using system Python"
      [] OTHER             -> "Could not detect Python environment"

\* Faulty variant of checkDependencies: a failed Python detection clears allGood.
checkDependenciesNeedingPython(python, gitingest, markdownlint) ==
    /\ python # "throw"
    /\ gitingest = "zero"
    /\ markdownlint = "zero"
    /\ apiKey

\* Faulty variant of checkDependencies: a failed markdownlint probe does not
\* clear allGood.
checkDependenciesIgnoringMarkdownlint(python, gitingest, markdownlint) ==
    /\ gitingest = "zero"
    /\ apiKey

\* Faulty variant of checkDependencies: the OPENAI_API_KEY check is missing.
checkDependenciesIgnoringKey(python, gitingest, markdownlint) ==
    /\ gitingest = "zero"
    /\ markdownlint = "zero"

\* checkDependencies' return value: every check is made, allGood is their
\* conjunction.
checkDependencies(python, gitingest, markdownlint) ==
    /\ gitingest = "zero"
    /\ markdownlint = "zero"
    /\ apiKey

\* Faulty variant of CheckOnly: main returns after the check, whatever it found.
CheckOnlyReturns ==
    /\ pc = "check"
    /\ \E python \in PythonOutcomes, gitingest \in ProbeOutcomes, markdownlint \in ProbeOutcomes :
          probes' = [gitingest |-> gitingest, markdownlint |-> markdownlint]
    /\ Exit(0)
    /\ depsChecked' = depsChecked + 1
    /\ UNCHANGED <<config, trial, documentFiles, snapshotState, exchangeState, operatorState,
                   endState, i, prompts, stepLog>>

\* main with --check: process.exit(depsOk ? 0 : 1).
CheckOnly ==
    /\ pc = "check"
    /\ \E python \in PythonOutcomes, gitingest \in ProbeOutcomes, markdownlint \in ProbeOutcomes :
          /\ probes' = [gitingest |-> gitingest, markdownlint |-> markdownlint]
          /\ Exit(IF checkDependencies(python, gitingest, markdownlint) THEN 0 ELSE 1)
    /\ depsChecked' = depsChecked + 1
    /\ UNCHANGED <<config, trial, documentFiles, snapshotState, exchangeState, operatorState,
                   endState, i, prompts, stepLog>>

\* runWorkflow: if (!await checkDependencies()) throw ..., caught by the
\* outer catch, which calls process.exit(1).
DependencyCheck ==
    /\ pc = "deps"
    /\ \E python \in PythonOutcomes, gitingest \in ProbeOutcomes, markdownlint \in ProbeOutcomes :
          /\ probes' = [gitingest |-> gitingest, markdownlint |-> markdownlint]
          /\ IF checkDependencies(python, gitingest, markdownlint)
             THEN pc' = "gitingest" /\ exitCode' = exitCode /\ i' = 1
             ELSE Exit(1) /\ i' = i
    /\ depsChecked' = depsChecked + 1
    /\ UNCHANGED <<config, trial, documentFiles, snapshotState, exchangeState, operatorState,
                   endState, prompts, stepLog>>

\* ------------------------------------------------------ snapshot generation
\* What a gitingest subprocess can do: exit 0 having written the file, exit 0
\* with a zero-byte file, exit 0 with no file, exit non-zero, or fail to run.
GitingestOutcomes == {"written", "empty", "missing", "nonzero", "throw"}

\* The outcomes drawn in the workflow; --debug-gitingest, which calls the same
\* runGitingest, draws from all of GitingestOutcomes.
WorkflowGitingestOutcomes == {"written", "nonzero", "throw"}

\* Faulty variant of runGitingest: success needs an output file with content.
runGitingestNeedingContent(outcome) == outcome = "written"

\* runGitingest's return value.
runGitingest(outcome) == outcome \in {"written", "empty", "missing"}

\* The snapshot file after the subprocess ran.
GitingestFile(old, outcome) ==
    CASE outcome = "written" -> FreshSnapshot
      [] outcome = "empty"   -> <<>>
      [] OTHER               -> old

\* Faulty variant of SnapshotGeneration: a failed gitingest run is thrown to
\* runWorkflow's outer catch.
SnapshotGenerationThrows ==
    /\ pc = "gitingest"
    /\ i \in DOMAIN DEFAULT_GITINGEST_CONFIGS
    /\ \E outcome \in WorkflowGitingestOutcomes :
          LET f == DEFAULT_GITINGEST_CONFIGS[i] IN
          /\ snapshots' = [snapshots EXCEPT ![f] = GitingestFile(snapshots[f], outcome)]
          /\ gitingestRuns' = Append(gitingestRuns, runGitingest(outcome))
          /\ IF ~runGitingest(outcome)
             THEN Exit(1) /\ i' = i
             ELSE IF i = Len(DEFAULT_GITINGEST_CONFIGS)
             THEN pc' = "prompts" /\ i' = 0 /\ exitCode' = exitCode
             ELSE pc' = pc /\ i' = i + 1 /\ exitCode' = exitCode
    /\ UNCHANGED <<config, trial, documentFiles, dependencyState, exchangeState, operatorState,
                   endState, prompts, stepLog>>

\* runWorkflow: for (const config of DEFAULT_GITINGEST_CONFIGS) await runGitingest(config)
SnapshotGeneration ==
    /\ pc = "gitingest"
    /\ i \in DOMAIN DEFAULT_GITINGEST_CONFIGS
    /\ \E outcome \in WorkflowGitingestOutcomes :
          LET f == DEFAULT_GITINGEST_CONFIGS[i] IN
          /\ snapshots' = [snapshots EXCEPT ![f] = GitingestFile(snapshots[f], outcome)]
          /\ gitingestRuns' = Append(gitingestRuns, runGitingest(outcome))
    /\ IF i = Len(DEFAULT_GITINGEST_CONFIGS)
       THEN pc' = "prompts" /\ i' = 0
       ELSE pc' = pc /\ i' = i + 1
    /\ UNCHANGED <<config, trial, documentFiles, dependencyState, exchangeState, operatorState,
                   endState, exitCode, prompts, stepLog>>

\* debugGitingest: runs every config once, then main returns.
DebugGitingest ==
    /\ pc = "debug"
    /\ i \in DOMAIN DEFAULT_GITINGEST_CONFIGS
    /\ \E outcome \in GitingestOutcomes :
          LET f == DEFAULT_GITINGEST_CONFIGS[i] IN
          /\ snapshots' = [snapshots EXCEPT ![f] = GitingestFile(snapshots[f], outcome)]
          /\ gitingestRuns' = Append(gitingestRuns, runGitingest(outcome))
    /\ IF i = Len(DEFAULT_GITINGEST_CONFIGS)
       THEN Exit(0) /\ i' = 0
       ELSE pc' = pc /\ exitCode' = exitCode /\ i' = i + 1
    /\ UNCHANGED <<config, trial, documentFiles, dependencyState, exchangeState, operatorState,
                   endState, prompts, stepLog>>

\* ------------------------------------------------------------- step list
\* Faulty variant of readGitingestOutput: the read is passed on as it is.
readGitingestOutputUnguarded(file, readOk) == file

\* readGitingestOutput: the content when the path exists and the read
\* succeeds, '' otherwise.
readGitingestOutput(file, readOk) ==
    IF file # NoFile /\ readOk THEN file ELSE <<>>

\* Faulty variant of PromptList: every prompt is given the snapshot context.
PromptListContextEverywhere(confluence, context) ==
    <<[step |-> 1, file |-> "1_prep_readme.txt", context |-> context]>>
    \o (IF confluence
        THEN <<[step |-> 2, file |-> "2_external_sources.txt", context |-> context]>>
        ELSE <<>>)
    \o <<[step |-> IF confluence THEN 3 ELSE 2, file |-> "3_gitingest_readme.txt",
          context |-> context]>>

\* Faulty variant of PromptList: the last prompt is always numbered 3.
PromptListFixedOrdinals(confluence, context) ==
    <<[step |-> 1, file |-> "1_prep_readme.txt", context |-> <<>>]>>
    \o (IF confluence
        THEN <<[step |-> 2, file |-> "2_external_sources.txt", context |-> <<>>]>>
        ELSE <<>>)
    \o <<[step |-> 3, file |-> "3_gitingest_readme.txt", context |-> context]>>

\* runWorkflow's prompts array for the given --confluence flag and context.
PromptList(confluence, context) ==
    <<[step |-> 1, file |-> "1_prep_readme.txt", context |-> <<>>]>>
    \o (IF confluence
        THEN <<[step |-> 2, file |-> "2_external_sources.txt", context |-> <<>>]>>
        ELSE <<>>)
    \o <<[step |-> IF confluence THEN 3 ELSE 2, file |-> "3_gitingest_readme.txt",
          context |-> context]>>

\* runWorkflow: build prompts, previousResponseId = '', enter the for-loop.
BuildPrompts ==
    /\ pc = "prompts"
    /\ \E readOk \in BOOLEAN :
          prompts' = PromptList(argv.confluence,
                        readGitingestOutput(snapshots[DEFAULT_GITINGEST_CONFIGS[1]], readOk))
    /\ previousResponseId' = 0
    /\ pc' = "step"
    /\ i' = 1
    /\ UNCHANGED <<config, trial, documentFiles, dependencyState, snapshotState, operatorState,
                   endState, exitCode, result, apiCalls, lastRequest, stepLog>>

\* ------------------------------------------------------------- step loop
\* The for-loop moves to the next prompt, or past the last one to formatReadme.
\* Faulty variant of NextIteration: the loop does not end after the last
\* prompt.
NextIterationUnbounded ==
    /\ i' = i + 1
    /\ pc' = "step"
    /\ exitCode' = exitCode

NextIteration ==
    /\ i' = i + 1
    /\ pc' = IF i + 1 > Len(prompts) THEN "format" ELSE "step"
    /\ exitCode' = exitCode

\* Faulty variants of Catch: one never rethrows, one always rethrows, one
\* resets the continuation token.
CatchAlwaysContinue ==
    /\ NextIteration
    /\ previousResponseId' = previousResponseId

CatchAlwaysRethrow ==
    /\ Exit(1) /\ i' = i
    /\ previousResponseId' = previousResponseId

CatchClearsToken ==
    /\ IF argv.continue THEN NextIteration ELSE Exit(1) /\ i' = i
    /\ previousResponseId' = 0

\* Faulty variant of Catch: without --continue the loop is left by break, not
\* by rethrowing.
CatchBreaks ==
    /\ IF argv.continue THEN NextIteration
       ELSE pc' = "format" /\ UNCHANGED <<i, exitCode>>
    /\ previousResponseId' = previousResponseId

\* Faulty variant of Catch: the failed step is run again.
CatchRetries ==
    /\ pc' = "step" /\ UNCHANGED <<i, exitCode>>
    /\ previousResponseId' = previousResponseId

\* Faulty variant of Catch: the rethrown error ends the process with status 0.
CatchExitsZero ==
    /\ IF argv.continue THEN NextIteration ELSE Exit(0) /\ i' = i
    /\ previousResponseId' = previousResponseId

\* Faulty variant of Catch: the token is set to the failed step's response
\* id when its exchange returned one.
CatchAdvancesToken ==
    /\ IF argv.continue THEN NextIteration ELSE Exit(1) /\ i' = i
    /\ previousResponseId' = IF stepLog'[Len(stepLog')].responseId # 0
                             THEN stepLog'[Len(stepLog')].responseId
                             ELSE previousResponseId

\* Faulty variant of Catch: in interactive mode the operator is asked after a
\* failed step too.
CatchAsks ==
    /\ IF ~argv.continue THEN Exit(1) /\ i' = i
       ELSE IF argv.interactive THEN pc' = "question" /\ UNCHANGED <<i, exitCode>>
       ELSE NextIteration
    /\ previousResponseId' = previousResponseId

\* The for-loop's catch block: log, rethrow unless --continue; the rethrown
\* error reaches runWorkflow's outer catch, which calls process.exit(1).
\* previousResponseId is not assigned on this path.
Catch ==
    /\ IF argv.continue THEN NextIteration ELSE Exit(1) /\ i' = i
    /\ previousResponseId' = previousResponseId

\* Faulty variant of CurrentReadme: whatever the read gave is used as it is.
CurrentReadmeUnguarded(file) == file

\* processPromptStep's currentReadme: the input document, '' when it cannot
\* be read.
CurrentReadme(file) == IF file # NoFile THEN file ELSE <<>>

\* stepLog with the running step's record changed.
Logged(field, value) ==
    [stepLog EXCEPT ![Len(stepLog)] = [@ EXCEPT ![field] = value]]

\* Faulty variant of UserContent: the document is the one the run found, not
\* the one on disk now.
UserContentOriginal(currentReadme) ==
    <<[part |-> "template", text |-> <<"T">>],
      [part |-> "document", text |-> Original(INPUT_FILE)]>>

\* processPromptStep's userContent: the format template, then the document.
UserContent(currentReadme) ==
    <<[part |-> "template", text |-> <<"T">>], [part |-> "document", text |-> currentReadme]>>

\* Faulty variant of Request: the Context block is appended whatever the
\* context is.
RequestContextAlways(systemPrompt, userContent, context, previousId) ==
    [instructions |-> systemPrompt,
     input |-> userContent \o <<[part |-> "context", text |-> context]>>,
     previous_response_id |-> previousId]

\* callOpenAI's request: combinedInput gets the Context block only for a
\* non-empty context; previous_response_id is sent only when previousId is set.
Request(systemPrompt, userContent, context, previousId) ==
    [instructions |-> systemPrompt,
     input |-> userContent \o (IF context # <<>>
                               THEN <<[part |-> "context", text |-> context]>>
                               ELSE <<>>),
     previous_response_id |-> previousId]

\* What generateSessionId may return: a fresh value for every process.
SessionIds == {"session-1", "session-2"}

\* Faulty variant of Create: the session id is also put into the instructions.
CreateSessionInInstructions(sessionId, request) ==
    [model |-> "gpt-4.1-nano", user |-> sessionId,
     instructions |-> <<request.instructions, sessionId>>,
     input |-> request.input,
     previous_response_id |-> request.previous_response_id]

\* The parameters callOpenAI passes to responses.create: the request with
\* model: OPENAI_MODEL and user: SESSION_ID.
Create(sessionId, request) ==
    [model |-> "gpt-4.1-nano", user |-> sessionId,
     instructions |-> request.instructions,
     input |-> request.input,
     previous_response_id |-> request.previous_response_id]

\* Faulty variant of ContentRejected: the check is missing.
ContentNeverRejected(content) == FALSE

\* processPromptStep: if (!result.content) throw ...
ContentRejected(content) == content = <<>>

\* processPromptStep(prompt.step, prompt.file, prompt.context, previousResponseId)
\* with callOpenAI inside it.  api is "error" when responses.create (or
\* getOpenAIClient) throws; otherwise output_text is what the service returned.
ProcessPromptStep ==
    /\ pc = "step"
    /\ i \in DOMAIN prompts
    /\ \E promptOk \in BOOLEAN, templateOk \in BOOLEAN,
          api \in {"ok", "error"}, output_text \in Completions :
          LET prompt == prompts[i]
              entry == [step |-> prompt.step, previousId |-> previousResponseId,
                        requested |-> FALSE, responseId |-> 0, error |-> "none",
                        wrote |-> FALSE]
              currentReadme == CurrentReadme(docs[INPUT_FILE])
              request == Request(prompt.file, UserContent(currentReadme),
                                 prompt.context, previousResponseId)
              sent == [entry EXCEPT !.requested = TRUE]
              response == [content |-> output_text, responseId |-> apiCalls + 1]
          IN
          IF ~promptOk \/ ~templateOk
          THEN \* readFile throws before anything is sent
               /\ output_text = <<>> /\ api = "error"
               /\ stepLog' = Append(stepLog, [entry EXCEPT !.error = "input"])
               /\ result' = NoResult
               /\ UNCHANGED <<apiCalls, lastRequest>>
               /\ Catch
          ELSE IF api = "error" \/ ~apiKey
          THEN /\ output_text = <<>>
               /\ apiCalls' = apiCalls + 1
               /\ lastRequest' = request
               /\ stepLog' = Append(stepLog, [sent EXCEPT !.error = "api"])
               /\ result' = NoResult
               /\ Catch
          ELSE /\ apiCalls' = apiCalls + 1
               /\ lastRequest' = request
               /\ result' = response
               /\ IF ContentRejected(output_text)
                  THEN /\ stepLog' = Append(stepLog, [sent EXCEPT !.responseId = response.responseId,
                                                                   !.error = "empty"])
                       /\ Catch
                  ELSE /\ stepLog' = Append(stepLog, [sent EXCEPT !.responseId = response.responseId])
                       /\ pc' = "update"
                       /\ UNCHANGED <<i, exitCode, previousResponseId>>
    /\ UNCHANGED <<config, trial, documentFiles, dependencyState, snapshotState, operatorState,
                   endState, prompts>>

\* Faulty variant of Backup: the copy is taken after the new content is written.
BackupAfterWrite(existing, copyOk) ==
    IF existing = NoFile
    THEN lastCopy' = "skipped" /\ UNCHANGED <<backupCount, lastBackup>>
    ELSE IF copyOk
    THEN /\ lastCopy' = "copied"
         /\ backupCount' = backupCount + 1
         /\ lastBackup' = Normalize(result.content)
    ELSE lastCopy' = "failed" /\ UNCHANGED <<backupCount, lastBackup>>

\* Faulty variant of Backup: the first write of a run is not preceded by a
\* copy.
BackupAfterFirstWrite(existing, copyOk) ==
    IF existing = NoFile \/ writes = 0
    THEN lastCopy' = "skipped" /\ UNCHANGED <<backupCount, lastBackup>>
    ELSE IF copyOk
    THEN lastCopy' = "copied" /\ backupCount' = backupCount + 1 /\ lastBackup' = existing
    ELSE lastCopy' = "failed" /\ UNCHANGED <<backupCount, lastBackup>>

\* updateReadme's backup: fs.copy to a fresh timestamped name when the output
\* exists; a rejected copy is logged and nothing else.
Backup(existing, copyOk) ==
    IF existing = NoFile
    THEN lastCopy' = "skipped" /\ UNCHANGED <<backupCount, lastBackup>>
    ELSE IF copyOk
    THEN lastCopy' = "copied" /\ backupCount' = backupCount + 1 /\ lastBackup' = existing
    ELSE lastCopy' = "failed" /\ UNCHANGED <<backupCount, lastBackup>>

\* previousResponseId = result.responseId
AdvanceToken == previousResponseId' = result.responseId

\* Faulty variant of UpdateReadme: a rejected fs.copy is not caught, so
\* nothing is written and the step fails.
UpdateReadmeCopyThrows ==
    /\ pc = "update"
    /\ \E copyOk \in BOOLEAN, writeOk \in BOOLEAN :
          /\ (docs[OUTPUT_FILE] = NoFile => copyOk)
          /\ Backup(docs[OUTPUT_FILE], copyOk)
          /\ IF copyOk /\ writeOk
             THEN /\ docs' = [docs EXCEPT ![OUTPUT_FILE] = Normalize(result.content)]
                  /\ writes' = writes + 1
                  /\ stepLog' = Logged("wrote", TRUE)
                  /\ AdvanceToken
                  /\ IF argv.interactive
                     THEN pc' = "question" /\ UNCHANGED <<i, exitCode>>
                     ELSE NextIteration
             ELSE /\ stepLog' = Logged("error", IF copyOk THEN "write" ELSE "backup")
                  /\ UNCHANGED <<docs, writes>>
                  /\ Catch
    /\ result' = NoResult
    /\ lastRequest' = NoRequest
    /\ UNCHANGED <<config, trial, dependencyState, snapshotState, operatorState, endState,
                   prompts, apiCalls>>

\* The loop body after processPromptStep returned: updateReadme(result.content),
\* the token assignment, then the --interactive question or the next prompt.
\* copyOk and writeOk are the outcomes of fs.copy and fs.writeFile.
UpdateReadme ==
    /\ pc = "update"
    /\ \E copyOk \in BOOLEAN, writeOk \in BOOLEAN :
          /\ (docs[OUTPUT_FILE] = NoFile => copyOk)
          /\ Backup(docs[OUTPUT_FILE], copyOk)
          /\ IF writeOk
             THEN /\ docs' = [docs EXCEPT ![OUTPUT_FILE] = Normalize(result.content)]
                  /\ writes' = writes + 1
                  /\ stepLog' = Logged("wrote", TRUE)
                  /\ AdvanceToken
                  /\ IF argv.interactive
                     THEN pc' = "question" /\ UNCHANGED <<i, exitCode>>
                     ELSE NextIteration
             ELSE /\ stepLog' = Logged("error", "write")
                  /\ UNCHANGED <<docs, writes>>
                  /\ Catch
    /\ result' = NoResult
    /\ lastRequest' = NoRequest
    /\ UNCHANGED <<config, trial, dependencyState, snapshotState, operatorState, endState,
                   prompts, apiCalls>>

\* What the operator may type at 'Continue to next step? (y/n): '.
Answers == {"y", "Y", "n", ""}

\* shouldContinue.toLowerCase()
toLowerCase(answer) == IF answer = "Y" THEN "y" ELSE answer

\* Faulty variant of Question: declining is thrown as an error.
QuestionDeclineThrows ==
    /\ pc = "question"
    /\ asked' = asked + 1
    /\ \E shouldContinue \in Answers :
          IF toLowerCase(shouldContinue) # "y"
          THEN declined' = TRUE /\ Exit(1) /\ i' = i
          ELSE declined' = declined /\ NextIteration
    /\ UNCHANGED <<config, trial, documentFiles, dependencyState, snapshotState, exchangeState,
                   endState, prompts, stepLog>>

\* --interactive: break unless the operator answers y.
Question ==
    /\ pc = "question"
    /\ asked' = asked + 1
    /\ \E shouldContinue \in Answers :
          IF toLowerCase(shouldContinue) # "y"
          THEN declined' = TRUE /\ pc' = "format" /\ UNCHANGED <<i, exitCode>>
          ELSE declined' = declined /\ NextIteration
    /\ UNCHANGED <<config, trial, documentFiles, dependencyState, snapshotState, exchangeState,
                   endState, prompts, stepLog>>

\* ------------------------------------------------------- format, cleanup
\* Faulty variant of FormatReadme: markdownlint is skipped when no step wrote.
FormatReadmeOnlyAfterWrite ==
    /\ pc = "format"
    /\ formatRuns' = formatRuns + (IF writes > 0 THEN 1 ELSE 0)
    /\ IF argv.keepContext
       THEN Exit(0) /\ i' = i
       ELSE pc' = "cleanup" /\ i' = 1 /\ exitCode' = exitCode
    /\ UNCHANGED <<config, trial, documentFiles, dependencyState, snapshotState, exchangeState,
                   operatorState, removes, removeFailures, prompts, stepLog>>

\* Faulty variant of FormatReadme: a non-zero markdownlint exit is thrown.
FormatReadmeThrows ==
    /\ pc = "format"
    /\ formatRuns' = formatRuns + 1
    /\ \E exit \in {"zero", "nonzero"} :
          IF exit = "nonzero" THEN Exit(1) /\ i' = i
          ELSE IF argv.keepContext
          THEN Exit(0) /\ i' = i
          ELSE pc' = "cleanup" /\ i' = 1 /\ exitCode' = exitCode
    /\ UNCHANGED <<config, trial, documentFiles, dependencyState, snapshotState, exchangeState,
                   operatorState, removes, removeFailures, prompts, stepLog>>

\* Faulty variant of Formatted: a non-zero markdownlint exit is thrown to
\* runWorkflow's outer catch.
FormattedOrThrown(exit) ==
    /\ pc = "format"
    /\ formatRuns' = formatRuns + 1
    /\ IF exit # "zero" THEN Exit(1) /\ i' = i
       ELSE IF argv.keepContext
       THEN Exit(0) /\ i' = i
       ELSE pc' = "cleanup" /\ i' = 1 /\ exitCode' = exitCode
    /\ UNCHANGED <<config, documentFiles, dependencyState, snapshotState, exchangeState,
                   operatorState, removes, removeFailures, prompts, stepLog>>

\* formatReadme with markdownlint --fix exiting as given: the exit code only
\* chooses what is echoed; then the cleanup is skipped when --keep-context is
\* given.
Formatted(exit) ==
    /\ pc = "format"
    /\ formatRuns' = formatRuns + 1
    /\ IF argv.keepContext
       THEN Exit(0) /\ i' = i
       ELSE pc' = "cleanup" /\ i' = 1 /\ exitCode' = exitCode
    /\ UNCHANGED <<config, documentFiles, dependencyState, snapshotState, exchangeState,
                   operatorState, removes, removeFailures, prompts, stepLog>>

\* The exit codes of markdownlint --fix: 0, or non-zero with issues left.
FormatExits == {"zero", "nonzero"}

\* await formatReadme(), then the --keep-context test.
FormatReadme ==
    /\ \E exit \in FormatExits : Formatted(exit)
    /\ trial' = trial

\* Faulty variant of Cleanup: only the first config's output is removed.
CleanupFirstOnly ==
    /\ pc = "cleanup"
    /\ snapshots' = [snapshots EXCEPT ![DEFAULT_GITINGEST_CONFIGS[1]] = NoFile]
    /\ removes' = removes + 1
    /\ removeFailures' = removeFailures
    /\ Exit(0) /\ i' = i
    /\ UNCHANGED <<config, trial, documentFiles, dependencyState, exchangeState, operatorState,
                   formatRuns, gitingestRuns, prompts, stepLog>>

\* Faulty variant of Cleanup: a rejected fs.remove is not caught; nothing after
\* it is removed and the run fails.
CleanupThrows ==
    /\ pc = "cleanup"
    /\ \E failed \in SUBSET {f \in SnapshotFiles : snapshots[f] # NoFile} :
          /\ Cardinality(failed) <= MaxRemoveFailures
          /\ snapshots' = IF failed = {} THEN [f \in SnapshotFiles |-> NoFile] ELSE snapshots
          /\ removeFailures' = removeFailures + Cardinality(failed)
          /\ removes' = removes + (IF failed = {} THEN Len(DEFAULT_GITINGEST_CONFIGS) ELSE 1)
          /\ Exit(IF failed = {} THEN 0 ELSE 1) /\ i' = i
    /\ UNCHANGED <<config, trial, documentFiles, dependencyState, exchangeState, operatorState,
                   formatRuns, gitingestRuns, prompts, stepLog>>

\* for (const config of DEFAULT_GITINGEST_CONFIGS)
\*   await fs.remove(config.output).catch(() => {})
\* then the workflow returns and the process ends with status 0.  failed
\* holds the existing files whose removal was rejected.
Cleanup ==
    /\ pc = "cleanup"
    /\ \E failed \in SUBSET {f \in SnapshotFiles : snapshots[f] # NoFile} :
          /\ Cardinality(failed) <= MaxRemoveFailures
          /\ snapshots' = [f \in SnapshotFiles |-> IF f \in failed THEN snapshots[f] ELSE NoFile]
          /\ removeFailures' = removeFailures + Cardinality(failed)
    /\ removes' = removes + Len(DEFAULT_GITINGEST_CONFIGS)
    /\ Exit(0) /\ i' = i
    /\ UNCHANGED <<config, trial, documentFiles, dependencyState, exchangeState, operatorState,
                   formatRuns, gitingestRuns, prompts, stepLog>>

\* --------------------------------------------------------- specification
Next ==
    \/ Main
    \/ CheckOnly
    \/ DependencyCheck
    \/ DebugGitingest
    \/ SnapshotGeneration
    \/ BuildPrompts
    \/ ProcessPromptStep
    \/ UpdateReadme
    \/ Question
    \/ FormatReadme
    \/ Cleanup

Spec == Init /\ [][Next]_vars

\* ------------------------------------------ checkDependencies on all inputs
\* Everything but trial.
processState ==
    <<argv, apiKey, docs, snapshots, backupCount, lastBackup, pc, exitCode,
      i, prompts, previousResponseId, result, apiCalls, lastRequest, stepLog,
      writes, lastCopy, asked, declined, probes, gitingestRuns, depsChecked,
      formatRuns, removes, removeFailures>>

\* checkDependencies called once, with every outcome of Python detection and
\* of the two probes: what checkPythonEnvironment echoed and what was returned.
DependencyTrial ==
    /\ trial = NoTrial
    /\ \E python \in PythonOutcomes, gitingest \in ProbeOutcomes, markdownlint \in ProbeOutcomes :
          trial' = [kind |-> "checkDependencies",
                    python |-> python, gitingest |-> gitingest, markdownlint |-> markdownlint,
                    echoed |-> checkPythonEnvironment(python),
                    allGood |-> checkDependencies(python, gitingest, markdownlint)]
    /\ UNCHANGED processState

DependencyTrialSpec == Init /\ [][DependencyTrial]_vars

\* --------------------------------------------------- runGitingest, applied
\* How the subprocess may end: exit code 0, another exit code, or $ throwing.
GitingestExits == {"zero", "nonzero", "throw"}

\* What fs.stat finds at config.output: a file with content, a zero-byte
\* file, or no file (stat throws).
GitingestStats == {"content", "empty", "missing"}

\* The outcome of one run of the subprocess, from its exit and, after exit
\* code 0, from the state of its output file.
GitingestOutcome(exit, stat) ==
    IF exit # "zero" THEN exit
    ELSE CASE stat = "content" -> "written"
           [] stat = "empty"   -> "empty"
           [] OTHER            -> "missing"

\* The warning runGitingest echoes after exit code 0.
GitingestWarning(outcome) ==
    CASE outcome = "empty"   -> "is empty"
      [] outcome = "missing" -> "Could not stat"
      [] OTHER               -> "none"

\* runGitingest called once with every exit of the subprocess and every
\* state of the output file: what it echoed as a warning and what it returned.
GitingestTrial ==
    /\ trial = NoTrial
    /\ \E exit \in GitingestExits, stat \in GitingestStats :
          LET outcome == GitingestOutcome(exit, stat) IN
          trial' = [kind |-> "runGitingest", exit |-> exit, stat |-> stat,
                    warning |-> GitingestWarning(outcome),
                    returned |-> runGitingest(outcome),
                    file |-> GitingestFile(NoFile, outcome)]
    /\ UNCHANGED processState

GitingestTrialSpec == Init /\ [][GitingestTrial]_vars

\* ------------------------------------------------- bin/rereadme.js, applied
\* What the 'exit' event's code may be: the child's exit status, or null when
\* a signal ended the child.
ChildCodes == {"0", "1", "2", "null"}

\* How the spawned child may end, as the wrapper sees it: an 'exit' event with
\* a code, or an 'error' event when the child could not be started.
ChildEnds ==
    [event : {"exit"}, code : ChildCodes] \cup [event : {"error"}, code : {"null"}]

\* JavaScript's code || 0 for a number or null.
OrZero(code) == IF code \in {"null", "0"} THEN "0" ELSE code

\* The status the wrapper exits with: process.exit(code || 0) on 'exit',
\* process.exit(1) on 'error'.
rereadme(end) == IF end.event = "exit" THEN OrZero(end.code) ELSE "1"

\* The wrapper run once with every way its child may end.
WrapperTrial ==
    /\ trial = NoTrial
    /\ \E end \in ChildEnds :
          trial' = [kind |-> "rereadme", child |-> end, status |-> rereadme(end)]
    /\ UNCHANGED processState

WrapperSpec == Init /\ [][WrapperTrial]_vars

\* ------------------------------------------- the formatter's exit code kept
\* await formatReadme(), with markdownlint's exit code kept for inspection.
FormatTrial ==
    \E exit \in FormatExits :
       /\ Formatted(exit)
       /\ trial' = [kind |-> "formatReadme", exitCode |-> exit]

FormatNext ==
    \/ Main
    \/ CheckOnly
    \/ DependencyCheck
    \/ SnapshotGeneration
    \/ DebugGitingest
    \/ BuildPrompts
    \/ ProcessPromptStep
    \/ UpdateReadme
    \/ Question
    \/ FormatTrial
    \/ Cleanup

FormatSpec == Init /\ [][FormatNext]_vars

\* ------------------------------------------------------ every call returns
\* Each external call returns and node runs the continuation of a settled
\* await: a step that can be taken is eventually taken.
FairSpec == Spec /\ WF_vars(Next)

\* ------------------------------------------------- the step loop, run twice
\* What the completion stub sees of a request: all of it, or all but the user
\* field.
StubView(readsUser, request) ==
    IF readsUser THEN request ELSE [request EXCEPT !.user = ""]

\* What the stub answers with: nothing, text, or white space only.
StubAnswers == {<<>>, <<"a">>, <<"\n">>}

\* The session ids of the two runs; which id the first run drew is immaterial.
SessionPairs == {p \in SessionIds \X SessionIds : p[1] = "session-1"}

\* A run at the head of the step loop: previousResponseId = '', first prompt.
LoopStart(files) ==
    [docs |-> files, previousResponseId |-> 0, i |-> 1, pc |-> "step", exitCode |-> 0]

\* One iteration of runWorkflow's for-loop with every file operation
\* succeeding: the empty check of processPromptStep, then updateReadme and
\* the token assignment, or the catch block.
LoopBody(run, response) ==
    LET next == [run EXCEPT !.i = @ + 1,
                            !.pc = IF run.i + 1 > Len(prompts) THEN "done" ELSE "step"]
    IN  IF ContentRejected(response.content)
        THEN IF argv.continue THEN next
             ELSE [run EXCEPT !.pc = "failed", !.exitCode = 1]
        ELSE [next EXCEPT !.docs[OUTPUT_FILE] = Normalize(response.content),
                          !.previousResponseId = response.responseId]

\* Two runs of the workflow that found the same flags, documents and snapshot,
\* each with its own session id, about to enter the step loop.  The stub has
\* answered nothing yet.
ReplayInit ==
    /\ argv \in {f \in Flags : /\ ~f.help /\ ~f.check /\ ~f.debugGitingest
                                /\ ~f.interactive /\ ~f.keepContext}
    /\ apiKey = TRUE
    /\ docs \in InitialDocs
    /\ snapshots \in InitialSnapshots
    /\ prompts = PromptList(argv.confluence,
                            readGitingestOutput(snapshots[DEFAULT_GITINGEST_CONFIGS[1]], TRUE))
    /\ trial \in [kind : {"replay"}, readsUser : BOOLEAN,
                   session : SessionPairs,
                   runs : {<<LoopStart(docs), LoopStart(docs)>>},
                   memo : {<<>>}]
    /\ backupCount = 0 /\ lastBackup = NoFile /\ pc = "replay" /\ exitCode = 0 /\ i = 0
    /\ previousResponseId = 0 /\ result = NoResult /\ apiCalls = 0
    /\ lastRequest = NoRequest /\ stepLog = <<>> /\ writes = 0 /\ lastCopy = "none"
    /\ asked = 0 /\ declined = FALSE /\ probes = Unprobed /\ gitingestRuns = <<>>
    /\ depsChecked = 0 /\ formatRuns = 0 /\ removes = 0 /\ removeFailures = 0

\* Run r executes its next step; the second run starts when the first is over.
\* A request the stub has seen gets the response it got before; a new one
\* gets any completion and a new response id.
ReplayStep(r) ==
    /\ trial.kind = "replay"
    /\ r = 1 \/ trial.runs[1].pc # "step"
    /\ trial.runs[r].pc = "step"
    /\ LET run == trial.runs[r]
           prompt == prompts[run.i]
           currentReadme == CurrentReadme(run.docs[INPUT_FILE])
           request == Create(trial.session[r],
                             Request(prompt.file, UserContent(currentReadme),
                                     prompt.context, run.previousResponseId))
           key == StubView(trial.readsUser, request)
           known == {k \in DOMAIN trial.memo : trial.memo[k].key = key}
       IN  \E output_text \in StubAnswers :
              LET response == IF known # {}
                              THEN trial.memo[CHOOSE k \in known : TRUE].response
                              ELSE [content |-> output_text, responseId |-> Len(trial.memo) + 1]
              IN  /\ known # {} => output_text = <<>>
                  /\ trial' = [trial EXCEPT
                                  !.runs[r] = LoopBody(run, response),
                                  !.memo = IF known = {}
                                           THEN Append(@, [key |-> key, response |-> response])
                                           ELSE @]
    /\ UNCHANGED processState

ReplayNext == \E r \in {1, 2} : ReplayStep(r)

ReplaySpec == ReplayInit /\ [][ReplayNext]_vars

\* ------------------------------------------------------------ vocabulary
\* The run is the full workflow (no --help, --check or --debug-gitingest).
Workflow == ~argv.help /\ ~argv.check /\ ~argv.debugGitingest

\* The orchestrator's terminal states.
Done == Workflow /\ pc = "exited" /\ exitCode = 0
Failed == Workflow /\ pc = "exited" /\ exitCode = 1

\* The run reached the step loop; the loop is running; the loop is over.
LoopEntered == prompts # <<>>
InLoop == pc \in {"step", "update", "question"}
LoopEnded == LoopEntered /\ pc \in {"format", "cleanup", "exited"}

StepFailed(k) == stepLog[k].error # "none"
SomeStepFailed == \E k \in DOMAIN stepLog : StepFailed(k)

\* The loop stopped at its newest step, which failed: every earlier step wrote
\* the document, the failing one did not, and the run is Failed.
StoppedAtFailingStep ==
    LET n == Len(stepLog) IN
    /\ StepFailed(n)
    /\ ~stepLog[n].wrote
    /\ \A k \in 1..(n - 1) : ~StepFailed(k) /\ stepLog[k].wrote
    /\ writes = n - 1
    /\ Failed

\* What follows the failure of step k under the --continue policy: unset, the
\* run is Failed at that step; set, the loop went on to the next prompt (or,
\* after the last prompt, to the format phase).
FailureHandled(k) ==
    /\ ~stepLog[k].wrote
    /\ IF argv.continue
       THEN k = Len(stepLog) =>
               IF k < Len(prompts)
               THEN pc = "step" /\ i = k + 1
               ELSE pc \in {"format", "cleanup", "exited"} /\ exitCode = 0
       ELSE k = Len(stepLog) /\ Failed

\* A dependency precondition was found missing by checkDependencies.
DependencyMissing ==
    /\ probes # Unprobed
    /\ probes.gitingest # "zero" \/ probes.markdownlint # "zero" \/ ~apiKey

\* ------------------------------------------------------------------ C1
\* C1 as stated: once the step loop is over, the number of steps executed
\* equals the length of the step list, unless --continue is unset and a step
\* failed, in which case the loop stopped at the failing step and neither it
\* nor any later step wrote the document.
C1_Original ==
    LoopEnded =>
        IF ~argv.continue /\ SomeStepFailed
        THEN StoppedAtFailingStep
        ELSE Len(stepLog) = Len(prompts)

\* C1 amended: as above, with one more exception: in interactive mode the
\* operator's decline stops the loop after a step that wrote the document,
\* without failure, and no later step is executed.
C1_StepsExecuted ==
    LoopEnded =>
        IF ~argv.continue /\ SomeStepFailed
        THEN StoppedAtFailingStep
        ELSE IF declined
        THEN /\ argv.interactive
             /\ Len(stepLog) <= Len(prompts)
             /\ stepLog[Len(stepLog)].wrote
             /\ exitCode = 0
        ELSE Len(stepLog) = Len(prompts)

\* A three-step run that stopped at its failing second step.
C1_Witness ==
    /\ Failed
    /\ Len(prompts) = 3
    /\ Len(stepLog) = 2
    /\ stepLog[1].wrote
    /\ StepFailed(2)

\* ------------------------------------------------------------------ C2
\* C2 as stated: the token passed to a step is the identifier returned by the
\* previous step's exchange, or, when that exchange returned none, the token
\* the previous step was passed.
C2_Original ==
    \A k \in 2..Len(stepLog) :
        stepLog[k].previousId =
            IF stepLog[k - 1].responseId # 0
            THEN stepLog[k - 1].responseId
            ELSE stepLog[k - 1].previousId

\* C2 amended: the token passed to a step (and sent as previous_response_id)
\* is the identifier returned to the previous step if that step completed
\* (content accepted, document written); if the previous step failed at any
\* point, even after its exchange returned an identifier, it is the token the
\* previous step was passed.  The first step is passed the empty token, and a
\* failure never clears the token.
C2_TokenThreading ==
    /\ \A k \in DOMAIN stepLog :
          stepLog[k].previousId =
              IF k = 1 THEN 0
              ELSE IF stepLog[k - 1].wrote
              THEN stepLog[k - 1].responseId
              ELSE stepLog[k - 1].previousId
    /\ (stepLog # <<>> /\ stepLog[Len(stepLog)].requested /\ lastRequest # NoRequest)
          => lastRequest.previous_response_id = stepLog[Len(stepLog)].previousId
    /\ (pc = "step" /\ stepLog # <<>> /\ StepFailed(Len(stepLog)))
          => previousResponseId = stepLog[Len(stepLog)].previousId

\* Step 1 wrote, step 2's exchange returned an identifier with empty text,
\* and step 3's request carries step 1's identifier.
C2_Witness ==
    /\ Len(stepLog) = 3
    /\ stepLog[1].wrote
    /\ stepLog[2].error = "empty"
    /\ stepLog[2].responseId # 0
    /\ stepLog[3].requested
    /\ stepLog[3].previousId = stepLog[1].responseId
    /\ stepLog[3].previousId # 0

\* ------------------------------------------------------------------ C3
\* C3 as stated: a write over an existing output creates exactly one backup,
\* holding the pre-write content; a write to an absent output creates none.
C3_Original ==
    [][(pc = "update" /\ writes' = writes + 1) =>
          IF docs[OUTPUT_FILE] # NoFile
          THEN backupCount' = backupCount + 1 /\ lastBackup' = docs[OUTPUT_FILE]
          ELSE backupCount' = backupCount]_vars

\* C3 amended: a write over an existing output is preceded by exactly one
\* backup copy attempt; when the copy succeeds exactly one backup file is
\* created and it holds the pre-write content verbatim, when the copy fails
\* none is created and the write still happens; a write to an absent output
\* attempts and creates none.
C3_BackupInvariant ==
    [][(pc = "update" /\ writes' = writes + 1) =>
          IF docs[OUTPUT_FILE] # NoFile
          THEN \/ /\ lastCopy' = "copied"
                  /\ backupCount' = backupCount + 1
                  /\ lastBackup' = docs[OUTPUT_FILE]
               \/ /\ lastCopy' = "failed"
                  /\ backupCount' = backupCount
                  /\ lastBackup' = lastBackup
          ELSE /\ lastCopy' = "skipped"
               /\ backupCount' = backupCount
               /\ lastBackup' = lastBackup]_vars

\* The first write found no output and made no backup; the second backed up
\* what the first had written.
C3_Witness ==
    /\ writes = 2
    /\ backupCount = 1
    /\ lastCopy = "copied"
    /\ lastBackup \notin {NoFile, Original(OUTPUT_FILE)}

\* ------------------------------------------------------------------ C4
\* C4: a step whose exchange returned empty text fails with the
\* empty-completion error and writes nothing; without --continue it is the
\* last step and the run is Failed (exit 1), with --continue the loop goes on.
C4_EmptyCompletion ==
    \A k \in DOMAIN stepLog :
        /\ (/\ k = Len(stepLog)
            /\ result.responseId # 0
            /\ result.responseId = stepLog[k].responseId
            /\ result.content = <<>>) => stepLog[k].error = "empty"
        /\ stepLog[k].error = "empty" => FailureHandled(k)

\* With --continue, step 1 got empty text and step 2 then wrote the document.
C4_Witness ==
    /\ argv.continue
    /\ Len(stepLog) = 2
    /\ stepLog[1].error = "empty"
    /\ stepLog[2].wrote

\* ------------------------------------------------------------------ C5
\* C5 as stated: a completion that is empty or only white space fails the step
\* with the empty-completion error and is never handed to updateReadme.
C5_WhitespaceRejected ==
    (stepLog # <<>> /\ result.responseId # 0 /\ Trim(result.content) = <<>>)
        => (pc # "update" /\ stepLog[Len(stepLog)].error = "empty")

\* ------------------------------------------------------------------ C6
\* C6 as stated: a failed document write ends the run in Failed at that step,
\* whatever --continue says.
C6_Original ==
    \A k \in DOMAIN stepLog :
        stepLog[k].error = "write" => (k = Len(stepLog) /\ Failed)

\* C6 amended: a failed document write is handled like every other step
\* failure: without --continue it is the last step and the run is Failed
\* (exit 1); with --continue the loop goes on to the next step.
C6_WriteFailure ==
    \A k \in DOMAIN stepLog :
        stepLog[k].error = "write" => FailureHandled(k)

\* With --continue, step 1's write failed and step 2 then wrote the document.
C6_Witness ==
    /\ argv.continue
    /\ Len(stepLog) = 2
    /\ stepLog[1].error = "write"
    /\ stepLog[2].wrote

C8_DependencyMissing ==
    (Workflow /\ DependencyMissing) =>
        /\ Failed
        /\ gitingestRuns = <<>>
        /\ snapshots \in InitialSnapshots
        /\ stepLog = <<>>
        /\ apiCalls = 0
        /\ writes = 0
        /\ backupCount = 0
        /\ docs \in InitialDocs
        /\ formatRuns = 0
        /\ removes = 0

\* The markdownlint probe failed and the workflow is Failed.
C8_Witness ==
    /\ Failed
    /\ probes.gitingest = "zero"
    /\ probes.markdownlint = "nonzero"
    /\ apiKey

\* ------------------------------------------------------------------ C9
\* C9 as stated: every run that entered the step loop has attempted the format
\* phase exactly once when it ends.
C9_Original ==
    (LoopEntered /\ pc = "exited") => formatRuns = 1

\* C9 amended: the format phase is attempted exactly once in every run whose
\* step loop ends without a fatal step failure (all steps ran, the operator
\* declined, or failures were passed over with --continue), however many steps
\* succeeded; a run that a step failure ends in Failed never attempts it.
C9_FormatOnce ==
    /\ InLoop => formatRuns = 0
    /\ (LoopEntered /\ pc = "format") => formatRuns = 0
    /\ (LoopEntered /\ pc = "cleanup") => formatRuns = 1
    /\ (LoopEntered /\ pc = "exited") => formatRuns = (IF exitCode = 0 THEN 1 ELSE 0)

\* Every step failed, and the run is Done having formatted once.
C9_Witness ==
    /\ Done
    /\ Len(stepLog) = Len(prompts)
    /\ \A k \in DOMAIN stepLog : StepFailed(k)
    /\ writes = 0
    /\ formatRuns = 1

\* ----------------------------------------------------------------- C10
\* C10 as stated: without --keep-context, at every terminal state of a run
\* that generated snapshots, no snapshot file the run produced remains
\* (deletions not failing).
C10_Original ==
    (Workflow /\ pc = "exited" /\ gitingestRuns # <<>> /\ ~argv.keepContext
        /\ removeFailures = 0)
        => \A f \in SnapshotFiles : snapshots[f] # FreshSnapshot

\* C10 amended: without --keep-context, at the terminal state Done no snapshot
\* file remains (deletions not failing); a run that ends in Failed after
\* snapshot generation skips the cleanup and leaves its snapshot files.
C10_SnapshotsDeleted ==
    (Done /\ ~argv.keepContext /\ removeFailures = 0)
        => \A f \in SnapshotFiles : snapshots[f] = NoFile

\* Every snapshot was generated, and the run is Done with the cleanup made.
C10_Witness ==
    /\ Done
    /\ ~argv.keepContext
    /\ removeFailures = 0
    /\ gitingestRuns = <<TRUE, TRUE, TRUE>>
    /\ removes = Len(DEFAULT_GITINGEST_CONFIGS)

\* ----------------------------------------------------------------- C11
\* The snapshot files still on disk.
RemainingSnapshots == {f \in SnapshotFiles : snapshots[f] # NoFile}

PromptFiles(list) == [k \in DOMAIN list |-> list[k].file]

C15_Decline ==
    declined =>
        /\ argv.interactive
        /\ pc \in {"format", "cleanup", "exited"}
        /\ exitCode = 0
        /\ stepLog[Len(stepLog)].wrote
        /\ asked = writes
        /\ pc = "exited" =>
              /\ formatRuns = 1
              /\ ~argv.keepContext => removes = Len(DEFAULT_GITINGEST_CONFIGS)

\* The operator declined after step 1 of a longer list; the run is Done after
\* format and cleanup.
C15_Witness ==
    /\ Done
    /\ declined
    /\ Len(stepLog) = 1
    /\ Len(prompts) > 1
    /\ formatRuns = 1
    /\ removes = Len(DEFAULT_GITINGEST_CONFIGS)

\* ----------------------------------------------------------------- C16
\* C16: a Failed run has a missing dependency, or --continue unset and a
\* failed step; with the dependencies present and --continue set, every exit
\* is Done (status 0) after the whole step list was gone through or the
\* operator declined, and the run can always take a step until it has exited.
C16_FailedOnlyFrom ==
    /\ Failed => (DependencyMissing \/ (~argv.continue /\ StoppedAtFailingStep))
    /\ (Workflow /\ argv.continue /\ probes # Unprobed /\ ~DependencyMissing) =>
          /\ exitCode = 0
          /\ pc = "exited" => (formatRuns = 1 /\ (declined \/ Len(stepLog) = Len(prompts)))
    /\ pc # "exited" => ENABLED Next

\* With --continue every step of a three-step list failed and the run is Done.
C16_Witness ==
    /\ Done
    /\ argv.continue
    /\ Len(prompts) = 3
    /\ Len(stepLog) = 3
    /\ \A k \in 1..3 : StepFailed(k)

\* ----------------------------------------------------------------- C17
\* C17: the exit status is 0 or 1; it is 0 exactly when --help was given,
\* --check found every dependency, --debug-gitingest completed, or the
\* workflow completed (ran its format phase); otherwise (workflow Failed,
\* --check with a missing dependency) it is 1.
C17_ExitStatus ==
    /\ exitCode \in {0, 1}
    /\ pc # "exited" => exitCode = 0
    /\ pc = "exited" =>
          (exitCode = 0 <=>
              \/ argv.help
              \/ ~argv.help /\ argv.check /\ ~DependencyMissing
              \/ ~argv.help /\ ~argv.check /\ argv.debugGitingest
              \/ Workflow /\ formatRuns = 1)

\* --check with the API key missing exits 1.
C17_Witness ==
    /\ pc = "exited"
    /\ ~argv.help /\ argv.check
    /\ ~apiKey
    /\ probes.gitingest = "zero" /\ probes.markdownlint = "zero"
    /\ exitCode = 1

\* ----------------------------------------------------------------- C18
\* Both runs of the replay are over.
ReplayOver ==
    /\ trial.kind = "replay"
    /\ \A r \in {1, 2} : trial.runs[r].pc # "step"

C19_AllChecks ==
    /\ probes = Unprobed => depsChecked = 0
    /\ probes # Unprobed =>
          LET allGood == probes.gitingest = "zero" /\ probes.markdownlint = "zero" /\ apiKey
          IN  /\ depsChecked = 1
              /\ probes.gitingest \in ProbeOutcomes
              /\ probes.markdownlint \in ProbeOutcomes
              /\ (~argv.help /\ argv.check) =>
                    (pc = "exited" /\ exitCode = (IF allGood THEN 0 ELSE 1))
              /\ Workflow =>
                    (allGood <=> ~(pc = "exited" /\ exitCode = 1 /\ gitingestRuns = <<>>))

\* The gitingest probe threw, markdownlint was still probed (and found), and
\* --check exits 1.
C19_Witness ==
    /\ pc = "exited"
    /\ ~argv.help /\ argv.check
    /\ probes.gitingest = "throw"
    /\ probes.markdownlint = "zero"
    /\ apiKey
    /\ exitCode = 1

\* ----------------------------------------------------------------- C20
\* C20: whatever Python detection does, checkDependencies returns; a failed
\* detection is echoed as the warning, and the value returned is the one the
\* two probes and the API key give.
C20_PythonNeverDecides ==
    trial.kind = "checkDependencies" =>
        /\ trial.allGood \in BOOLEAN
        /\ trial.allGood <=>
              (trial.gitingest = "zero" /\ trial.markdownlint = "zero" /\ apiKey)
        /\ trial.python = "throw" => trial.echoed = "Could not detect Python environment"

\* Python detection failed and checkDependencies returned true.
C20_Witness ==
    /\ trial.kind = "checkDependencies"
    /\ trial.python = "throw"
    /\ trial.echoed = "Could not detect Python environment"
    /\ trial.allGood

\* C21: a missing input document is not an error of a step.  Every request
\* sent while the input path names no file carries the template and an empty
\* document, no step fails on its input because of it, and a step that wrote
\* has left an output document behind.
C21_MissingInput ==
    /\ (lastRequest # NoRequest /\ docs[INPUT_FILE] = NoFile)
          => /\ Len(lastRequest.input) >= 2
             /\ lastRequest.input[2] = [part |-> "document", text |-> <<>>]
    /\ \A k \in DOMAIN stepLog :
          /\ stepLog[k].wrote => docs[OUTPUT_FILE] # NoFile
          /\ stepLog[k].error = "input" => ~stepLog[k].requested

\* The input path names no file, the first step's exchange succeeded and the
\* output document, absent before, now exists.
C21_Witness ==
    /\ argv.output
    /\ docs[INPUT_FILE] = NoFile
    /\ Len(stepLog) = 1
    /\ stepLog[1].requested /\ stepLog[1].wrote
    /\ backupCount = 0 /\ lastCopy = "skipped"
    /\ docs[OUTPUT_FILE] # NoFile

\* C22: a step whose instruction file (or template) cannot be read fails
\* before anything is sent and before the document is touched: it sent no
\* request and got no response id, requests are counted by the steps that
\* sent one, writes by the steps that wrote, backups only by steps that got
\* as far as updateReadme; and the failure ends the run as Failed unless
\* --continue is given, in which case the loop goes on.
C22_InstructionUnreadable ==
    /\ \A k \in DOMAIN stepLog :
          stepLog[k].error = "input"
             => /\ ~stepLog[k].requested
                /\ stepLog[k].responseId = 0
                /\ FailureHandled(k)
    /\ apiCalls = Cardinality({k \in DOMAIN stepLog : stepLog[k].requested})
    /\ writes = Cardinality({k \in DOMAIN stepLog : stepLog[k].wrote})
    /\ backupCount <= Cardinality({k \in DOMAIN stepLog : stepLog[k].error \in {"none", "write"}})

\* Without --continue the first step's instruction file could not be read: the
\* run is Failed, nothing was sent, and the existing document has neither
\* been written nor copied.
C22_Witness ==
    /\ ~argv.continue
    /\ Failed
    /\ Len(stepLog) = 1
    /\ stepLog[1].error = "input"
    /\ apiCalls = 0 /\ lastRequest = NoRequest
    /\ writes = 0 /\ backupCount = 0
    /\ docs[OUTPUT_FILE] = Original(OUTPUT_FILE)

\* C23: the input of every request is, in this order, the format template,
\* the content of the input document as the step read it, and then a Context
\* block holding the step's context; the Context block is there exactly when
\* the step's context is not empty.  (The request in lastRequest is the one
\* of the newest step that sent one; no step has written since.)
C23_UserPayload ==
    lastRequest # NoRequest =>
        LET sent == {k \in DOMAIN stepLog : stepLog[k].requested}
            last == CHOOSE k \in sent : \A j \in sent : j <= k
            context == prompts[last].context
            input == lastRequest.input
        IN  /\ sent # {}
            /\ stepLog[last].step = prompts[last].step
            /\ Len(input) = IF context # <<>> THEN 3 ELSE 2
            /\ input[1] = [part |-> "template", text |-> <<"T">>]
            /\ input[2] = [part |-> "document", text |-> CurrentReadme(docs[INPUT_FILE])]
            /\ context # <<>> => input[3] = [part |-> "context", text |-> context]

\* The code step's request is out: template, the existing document, and the
\* Context block with the snapshot just generated.
C23_Witness ==
    /\ pc = "update"
    /\ Len(stepLog) = Len(prompts)
    /\ docs[INPUT_FILE] # NoFile
    /\ lastRequest.input = <<[part |-> "template", text |-> <<"T">>],
                             [part |-> "document", text |-> docs[INPUT_FILE]],
                             [part |-> "context", text |-> FreshSnapshot]>>

\* C24: nothing is retried.  Each prompt is run at most once, in list order,
\* and a run of a prompt calls responses.create at most once, so the calls
\* never outnumber the steps started; a step whose call threw got no
\* response id, wrote nothing, and was handled by the loop's catch block:
\* Failed at that step without --continue, on to the next prompt with it.
C24_NoRetry ==
    /\ Len(stepLog) <= Len(prompts)
    /\ \A k \in DOMAIN stepLog : stepLog[k].step = prompts[k].step
    /\ apiCalls <= Len(stepLog)
    /\ InLoop => Len(stepLog) = IF pc = "step" THEN i - 1 ELSE i
    /\ \A k \in DOMAIN stepLog :
          stepLog[k].error = "api"
             => /\ stepLog[k].requested
                /\ stepLog[k].responseId = 0
                /\ FailureHandled(k)

\* With --continue the first step's call threw; the second step made its own
\* call, the second of the run, and wrote.
C24_Witness ==
    /\ argv.continue
    /\ Len(stepLog) = 2
    /\ stepLog[1].error = "api"
    /\ stepLog[2].wrote
    /\ apiCalls = 2

\* C25: a backup copy that fails does not stand in the way of the write.  In
\* every updateReadme whose fs.copy was rejected, either the new content is
\* written to the output path, the step counts as completed, the token is
\* advanced to its response id and the loop goes on (to the question, the next
\* prompt or the formatter), or the write itself was rejected and that is the
\* step's error.
C25_BackupFailure ==
    [][(pc = "update" /\ lastCopy' = "failed")
          => LET n == Len(stepLog) IN
             \/ /\ docs' = [docs EXCEPT ![OUTPUT_FILE] = Normalize(result.content)]
                /\ writes' = writes + 1
                /\ stepLog'[n].wrote /\ stepLog'[n].error = "none"
                /\ previousResponseId' = result.responseId
                /\ pc' \in {"question", "step", "format"}
                /\ exitCode' = 0
                /\ backupCount' = backupCount
             \/ /\ stepLog'[n].error = "write"
                /\ docs' = docs]_vars

\* The newest step found the output document in place, its backup copy
\* failed (no backup exists), and it wrote the document and advanced the
\* token all the same.
C25_Witness ==
    /\ lastCopy = "failed"
    /\ backupCount = 0
    /\ Len(stepLog) = 1
    /\ stepLog[1].wrote
    /\ writes = 1
    /\ docs[OUTPUT_FILE] # Original(OUTPUT_FILE)
    /\ previousResponseId = stepLog[1].responseId
    /\ pc = "step"

\* C26: a non-zero exit of markdownlint changes nothing in what follows.
\* Whatever the formatter's exit code was, once formatReadme has returned
\* the exit status is 0, the cleanup is the next thing to run unless
\* --keep-context is given, it issues one fs.remove per config, and the run
\* ends as Done.
C26_FormatterExit ==
    trial # NoTrial =>
        /\ trial.kind = "formatReadme"
        /\ formatRuns = 1
        /\ exitCode = 0
        /\ pc \in {"cleanup", "exited"}
        /\ pc = "cleanup" <=> (~argv.keepContext /\ removes = 0)
        /\ pc = "exited" =>
              /\ Done
              /\ removes = IF argv.keepContext THEN 0 ELSE Len(DEFAULT_GITINGEST_CONFIGS)
              /\ (~argv.keepContext /\ removeFailures = 0) => RemainingSnapshots = {}

\* markdownlint exited non-zero after a step had written the document; the
\* cleanup ran and removed the three snapshots, and the run is Done.
C26_Witness ==
    /\ trial = [kind |-> "formatReadme", exitCode |-> "nonzero"]
    /\ writes > 0
    /\ gitingestRuns = <<TRUE, TRUE, TRUE>>
    /\ ~argv.keepContext
    /\ removes = Len(DEFAULT_GITINGEST_CONFIGS)
    /\ RemainingSnapshots = {}
    /\ Done

\* C27: every run terminates.  With every external call returning and every
\* continuation run (FairSpec), each run reaches the exited state and stays
\* there, with exit status 0 or 1: a workflow run ends as Done or as Failed,
\* and Failed is exit status 1.
C27_Termination ==
    <>[](/\ pc = "exited"
         /\ exitCode \in {0, 1}
         /\ Workflow => (Done \/ Failed)
         /\ Failed => exitCode = 1)

\* A workflow run that went through the whole loop with a failed step and a
\* written one, and ended.
C27_Witness ==
    /\ Workflow
    /\ pc = "exited"
    /\ argv.continue
    /\ Len(stepLog) = Len(prompts)
    /\ SomeStepFailed
    /\ writes > 0
    /\ formatRuns = 1

\* The phase of runWorkflow the process is in: dependency check, snapshot
\* generation, step loop (with the building of its prompt list), format,
\* cleanup, and the end.
Phase ==
    CASE pc = "deps" -> 1
      [] pc = "gitingest" -> 2
      [] pc \in {"prompts", "step", "update", "question"} -> 3
      [] pc = "format" -> 4
      [] pc = "cleanup" -> 5
      [] pc = "exited" -> 6
      [] OTHER -> 0

NothingButTheCheck ==
    /\ gitingestRuns = <<>> /\ snapshots \in InitialSnapshots
    /\ prompts = <<>> /\ stepLog = <<>>
    /\ apiCalls = 0 /\ lastRequest = NoRequest /\ result = NoResult
    /\ docs \in InitialDocs /\ writes = 0 /\ backupCount = 0 /\ lastCopy = "none"
    /\ asked = 0 /\ formatRuns = 0 /\ removes = 0
    /\ depsChecked <= 1

\* C29 as stated: with --check only the dependency check runs, and the
\* process exits 0 if it passed and 1 otherwise.
C29_Original ==
    argv.check =>
        /\ NothingButTheCheck
        /\ pc = "exited" => /\ depsChecked = 1
                            /\ exitCode = IF DependencyMissing THEN 1 ELSE 0

\* C29 amended: with --check and without --help only the dependency check
\* runs, and the process exits 0 if it passed and 1 otherwise; --help given
\* with --check wins: the help is shown, nothing is checked and the process
\* exits 0.
C29_CheckOnly ==
    argv.check =>
        /\ NothingButTheCheck
        /\ Phase \in {0, 6}
        /\ pc = "exited" =>
              IF argv.help
              THEN depsChecked = 0 /\ probes = Unprobed /\ exitCode = 0
              ELSE /\ depsChecked = 1
                   /\ exitCode = IF DependencyMissing THEN 1 ELSE 0

\* --check with every dependency in place, in a directory holding a document
\* and an old snapshot: exit 0, both files as they were.
C29_Witness ==
    /\ argv.check /\ ~argv.help
    /\ pc = "exited" /\ exitCode = 0
    /\ depsChecked = 1 /\ ~DependencyMissing
    /\ docs[INPUT_FILE] = Original(INPUT_FILE)
    /\ snapshots[DEFAULT_GITINGEST_CONFIGS[1]] = StaleSnapshot
    /\ NothingButTheCheck

\* C30: a missing or unreadable snapshot gives the code step an empty
\* context, and the step is run all the same.  From the building of the
\* prompt list to the end of the format phase the last prompt is the code
\* step, its context is the code snapshot's content or empty, and empty
\* whenever the file is missing; when that step has sent its request with
\* an empty context the request has the template and the document and no
\* Context block.
C30_MissingSnapshot ==
    (LoopEntered /\ Phase \in {3, 4}) =>
        LET n == Len(prompts)
            code == snapshots[DEFAULT_GITINGEST_CONFIGS[1]]
            context == prompts[n].context
        IN  /\ prompts[n].file = "3_gitingest_readme.txt"
            /\ context \in {<<>>, code}
            /\ code = NoFile => context = <<>>
            /\ (pc = "update" /\ Len(stepLog) = n /\ context = <<>>)
                  => /\ stepLog[n].requested
                     /\ Len(lastRequest.input) = 2
                     /\ \A k \in DOMAIN lastRequest.input :
                           lastRequest.input[k].part # "context"

\* Every gitingest run failed and no snapshot file exists; the code step
\* was run: its request went out without a Context block and was answered.
C30_Witness ==
    /\ gitingestRuns = <<FALSE, FALSE, FALSE>>
    /\ RemainingSnapshots = {}
    /\ pc = "update"
    /\ Len(stepLog) = Len(prompts)
    /\ stepLog[Len(stepLog)].requested
    /\ stepLog[Len(stepLog)].responseId # 0
    /\ prompts[Len(prompts)].context = <<>>
    /\ Len(lastRequest.input) = 2

\* C31: runGitingest returns a boolean, TRUE exactly when the subprocess
\* exited with code 0.  After exit code 0 an empty or missing output file is
\* a warning and the return value is still TRUE; a non-zero exit code and a
\* throwing subprocess give FALSE, without a warning about the file.
C31_RunGitingest ==
    trial # NoTrial =>
        /\ trial.kind = "runGitingest"
        /\ trial.returned \in BOOLEAN
        /\ trial.returned <=> trial.exit = "zero"
        /\ (trial.exit = "zero" /\ trial.stat \in {"empty", "missing"})
              => trial.warning # "none" /\ trial.returned
        /\ (trial.exit = "zero" /\ trial.stat = "content") => trial.warning = "none"
        /\ trial.exit # "zero" => trial.warning = "none" /\ trial.file = NoFile

\* The subprocess exited with code 0 and left a zero-byte file: a warning,
\* and TRUE.
C31_Witness ==
    /\ trial # NoTrial
    /\ trial.kind = "runGitingest"
    /\ trial.exit = "zero" /\ trial.stat = "empty"
    /\ trial.file = <<>>
    /\ trial.warning = "is empty"
    /\ trial.returned

TokenAfter(n) ==
    LET done == {k \in 1..n : stepLog[k].wrote} IN
    IF done = {} THEN 0
    ELSE stepLog[CHOOSE k \in done : \A j \in done : j <= k].responseId

\* C35: the token is advanced only when the step's write has succeeded.  At
\* every point the token is the response id of the last step that wrote the
\* document, or empty; every step was passed the token of the last step
\* before it that wrote; and a step that got a response id and then failed
\* (empty content, failed write) has not changed the token.
C35_TokenAfterWrite ==
    /\ previousResponseId = TokenAfter(Len(stepLog))
    /\ \A k \in DOMAIN stepLog :
          /\ stepLog[k].previousId = TokenAfter(k - 1)
          /\ stepLog[k].wrote => stepLog[k].responseId # 0 /\ ~StepFailed(k)
          /\ (StepFailed(k) /\ stepLog[k].responseId # 0)
                => /\ stepLog[k].error \in {"empty", "write"}
                   /\ TokenAfter(k) = stepLog[k].previousId
                   /\ TokenAfter(k) # stepLog[k].responseId

\* With --continue, step 1 wrote, step 2 got a response id but its write
\* failed, and step 3 was passed step 1's response id.
C35_Witness ==
    /\ argv.continue
    /\ Len(stepLog) = 3
    /\ stepLog[1].wrote
    /\ stepLog[2].error = "write"
    /\ stepLog[2].responseId # 0
    /\ stepLog[3].previousId = stepLog[1].responseId
    /\ stepLog[3].previousId # stepLog[2].responseId

\* C36: the operator is asked once after every step that wrote the document,
\* the last of the list included, and at no other time.  With --interactive
\* the questions asked, and the one about to be asked, are as many as the
\* steps that wrote; the question is pending only right after a step that
\* wrote; a failed step is followed by the next prompt, the formatter or the
\* end of the run, never by the question.  Without --interactive nothing is
\* asked.
C36_Confirmation ==
    LET wrote == Cardinality({k \in DOMAIN stepLog : stepLog[k].wrote})
        n == Len(stepLog)
    IN  /\ asked + (IF pc = "question" THEN 1 ELSE 0) = IF argv.interactive THEN wrote ELSE 0
        /\ pc = "question" => argv.interactive /\ stepLog[n].wrote /\ i = n
        /\ (argv.interactive /\ n > 0 /\ stepLog[n].wrote /\ ~declined /\ InLoop)
              => \/ pc = "question"
                 \/ pc = "step" /\ i = n + 1
        /\ (n > 0 /\ StepFailed(n)) => pc # "question"
        /\ declined => asked > 0 /\ stepLog[n].wrote

\* --interactive and --continue: the first step failed and the second, the
\* last of the list, wrote; the operator was asked once, after it.
C36_Witness ==
    /\ argv.interactive /\ argv.continue
    /\ Len(prompts) = 2
    /\ Len(stepLog) = 2
    /\ StepFailed(1)
    /\ stepLog[2].wrote
    /\ asked = 1
    /\ pc = "format"

\* C37 as stated, call by call: with copies not failing, backups and writes
\* go together.  An updateReadme that finds the output file creates a backup
\* exactly when it writes, and one that finds no output file creates none;
\* so over the run the backups are as many as the writes, less the first
\* write of a run that found no output file.
C37_Original ==
    [][(pc = "update" /\ lastCopy' # "failed")
          => /\ docs[OUTPUT_FILE] # NoFile
                   => (backupCount' = backupCount + 1 <=> writes' = writes + 1)
             /\ docs[OUTPUT_FILE] = NoFile => backupCount' = backupCount]_vars

\* C37 amended: with copies not failing, the backups are as many as the
\* calls of updateReadme that found the output file in place, whether the
\* write that followed succeeded or not: such a call creates one backup, of
\* the file as it was, a call that found no file creates none, and the call
\* then writes, or fails on its write alone.  The backups equal the writes
\* (less the first write of a run that found no output file) only when no
\* write fails.
C37_BackupCount ==
    [][(pc = "update" /\ lastCopy' # "failed")
          => LET n == Len(stepLog) IN
             /\ IF docs[OUTPUT_FILE] # NoFile
                THEN /\ lastCopy' = "copied"
                     /\ backupCount' = backupCount + 1
                     /\ lastBackup' = docs[OUTPUT_FILE]
                ELSE /\ lastCopy' = "skipped"
                     /\ backupCount' = backupCount
                     /\ lastBackup' = lastBackup
             /\ \/ writes' = writes + 1 /\ stepLog'[n].wrote
                \/ writes' = writes /\ stepLog'[n].error = "write"]_vars

\* Two steps wrote and one backup exists, taken at the second write: it
\* holds the first step's output, not a document the run found.
C37_Witness ==
    /\ Len(stepLog) = 2
    /\ stepLog[1].wrote /\ stepLog[2].wrote
    /\ writes = 2
    /\ backupCount = 1
    /\ lastCopy = "copied"
    /\ lastBackup \notin {NoFile, Original(OUTPUT_FILE)}

\* C38: the wrapper exits with its child's exit status however the child
\* ended: the status is the child's code when it exited with one, it is not
\* 0 when the child did not exit with 0, and it is 1 when the child could not
\* be started.
C38_SameStatus ==
    trial # NoTrial =>
        /\ trial.kind = "rereadme"
        /\ (trial.child.event = "exit" /\ trial.child.code # "null")
              => trial.status = trial.child.code
        /\ trial.status = "0"
              => trial.child.event = "exit" /\ trial.child.code = "0"
        /\ trial.child.event = "error" => trial.status = "1"

\* The mode main selects: the first of --help, --check, --debug-gitingest
\* that is given, else the workflow.
Mode ==
    IF argv.help THEN "help"
    ELSE IF argv.check THEN "check"
    ELSE IF argv.debugGitingest THEN "debug"
    ELSE "workflow"

\* No step of the loop has left a trace: no prompt list, request, document
\* write, backup or question.
NoStepRan ==
    /\ prompts = <<>> /\ stepLog = <<>>
    /\ apiCalls = 0 /\ lastRequest = NoRequest
    /\ docs \in InitialDocs /\ writes = 0 /\ backupCount = 0
    /\ asked = 0

\* C39: one mode per invocation, chosen in the order --help, --check,
\* --debug-gitingest, workflow.  The process is only ever in the code of the
\* selected mode and only that mode leaves effects.  --help checks no
\* dependency, starts no subprocess and writes no file.  --debug-gitingest
\* calls runGitingest once per config, in order, three times by the time it
\* ends, and checks no dependency, sends no request, writes no document and
\* removes no snapshot.
C39_ModeDispatch ==
    /\ pc = "check" => Mode = "check"
    /\ pc = "debug" => Mode = "debug"
    /\ Phase \in 1..5 => Mode = "workflow"
    /\ depsChecked > 0 => Mode \in {"check", "workflow"}
    /\ gitingestRuns # <<>> => Mode \in {"debug", "workflow"}
    /\ Mode # "workflow" => NoStepRan /\ formatRuns = 0 /\ removes = 0
    /\ Mode = "help" =>
          /\ pc \in {"main", "exited"} /\ exitCode = 0
          /\ depsChecked = 0 /\ probes = Unprobed
          /\ gitingestRuns = <<>> /\ snapshots \in InitialSnapshots
    /\ Mode = "debug" =>
          /\ pc \in {"main", "debug", "exited"} /\ exitCode = 0
          /\ depsChecked = 0 /\ probes = Unprobed
          /\ pc = "main" => gitingestRuns = <<>>
          /\ pc = "debug" => Len(gitingestRuns) = i - 1
          /\ pc = "exited" => Len(gitingestRuns) = Len(DEFAULT_GITINGEST_CONFIGS)
          /\ \A f \in SnapshotFiles : snapshots[f] \in {NoFile, StaleSnapshot, FreshSnapshot, <<>>}

\* --debug-gitingest ran the three configs, the second one failing, and the
\* process ended: no dependency was checked, and the snapshots written stay.
C39_Witness ==
    /\ Mode = "debug"
    /\ pc = "exited"
    /\ gitingestRuns = <<TRUE, FALSE, TRUE>>
    /\ snapshots[DEFAULT_GITINGEST_CONFIGS[1]] = FreshSnapshot
    /\ snapshots[DEFAULT_GITINGEST_CONFIGS[3]] = FreshSnapshot
    /\ depsChecked = 0
    /\ NoStepRan
    /\ removes = 0

\* C40: only the last step, the code step, carries snapshot context.  The
\* prompt list is built once, when the three configs have been run and
\* before any step: every prompt but the last has an empty context and the
\* last has the content of gitingest-code.txt as it is on disk then
\* (nothing when it cannot be read), whether this run wrote that file or an
\* earlier one did.  The list never changes afterwards, and each request
\* has a Context block exactly when it is the last prompt's and that context
\* is not empty, holding that context.
C40_SnapshotContext ==
    [][/\ prompts' # prompts
             => LET n == Len(prompts') IN
                /\ pc = "prompts" /\ prompts = <<>>
                /\ Len(gitingestRuns) = Len(DEFAULT_GITINGEST_CONFIGS)
                /\ stepLog = <<>> /\ apiCalls = 0
                /\ \A k \in 1..(n - 1) : prompts'[k].context = <<>>
                /\ prompts'[n].context \in {<<>>, snapshots[DEFAULT_GITINGEST_CONFIGS[1]]}
                /\ prompts'[n].context # NoFile
                /\ snapshots' = snapshots
       /\ apiCalls' # apiCalls
             => LET input == lastRequest'.input IN
                /\ prompts' = prompts
                /\ Len(input) = 3 <=> (i = Len(prompts) /\ prompts[i].context # <<>>)
                /\ Len(input) = 3
                      => input[3] = [part |-> "context", text |-> prompts[Len(prompts)].context]]_vars

\* This run's gitingest for the code snapshot failed, an earlier run's file
\* was on disk, and the last step's request carries it; the first step's did
\* not.
C40_Witness ==
    /\ pc = "update"
    /\ Len(gitingestRuns) = Len(DEFAULT_GITINGEST_CONFIGS)
    /\ gitingestRuns[1] = FALSE
    /\ Len(stepLog) = Len(prompts)
    /\ prompts[1].context = <<>>
    /\ prompts[Len(prompts)].context = StaleSnapshot
    /\ Len(lastRequest.input) = 3
    /\ lastRequest.input[3] = [part |-> "context", text |-> StaleSnapshot]

=============================================================================
